---- MODULE Spec2Model ----
(***************************************************************************)
(* Model of roi.py (xml2mask): the batch driver process(), parse_xml,      *)
(* create_polygons, create_selection, fix_polygon and create_mask.         *)
(*                                                                         *)
(* Geometry.  A shapely geometry is modelled by the set of unit cells      *)
(* <<i, j>> = [i, i+1] x [j, j+1] it covers (exact for the rectilinear,    *)
(* integer-vertex polygons the model draws), the ring it was built from    *)
(* (when it is a Polygon built straight from a vertex list), its validity  *)
(* flag and its bounds.  Floating point scale factors are rationals        *)
(* <<num, den>>; Python's round() is round-half-to-even.                   *)
(*                                                                         *)
(* Whether the geometry that buffer(0) returns is valid is decided by      *)
(* GEOS, not by roi.py: it is valid in every run except the function run   *)
(* SpecRepair, which also draws the outcomes in which it is not.           *)
(***************************************************************************)
EXTENDS Integers, Sequences, FiniteSets, TLC

\* The arguments of the function under study in a function run; the geometry
\* operators read from it what GEOS makes of a buffer(0) call.
VARIABLE inp

(***************************************************************************)
(* Small arithmetic helpers                                                *)
(***************************************************************************)
Min(a, b) == IF a <= b THEN a ELSE b
Max(a, b) == IF a >= b THEN a ELSE b

SetMin(S) == CHOOSE x \in S : \A y \in S : x <= y
SetMax(S) == CHOOSE x \in S : \A y \in S : x >= y

\* Python round() of the non-negative rational n/d: round half to even.
PyRound(n, d) ==
    LET q == n \div d
        r == n % d
    IN  IF 2 * r < d THEN q
        ELSE IF 2 * r > d THEN q + 1
        ELSE IF q % 2 = 0 THEN q ELSE q + 1

(***************************************************************************)
(* Rings and point location                                                *)
(***************************************************************************)
\* Vertex k of the closed ring, indices wrapping around.
RingAt(ring, k) == ring[((k - 1) % Len(ring)) + 1]

\* Twice the signed area of the ring (shoelace formula).
RECURSIVE Shoelace(_, _)
Shoelace(ring, k) ==
    IF k > Len(ring) THEN 0
    ELSE LET a == RingAt(ring, k)
             b == RingAt(ring, k + 1)
         IN  (a[1] * b[2] - b[1] * a[2]) + Shoelace(ring, k + 1)

SignedArea2(ring) == Shoelace(ring, 1)

\* Orientation of the triple (a, b, c): >0 left turn, <0 right turn, 0 collinear.
Orient(a, b, c) == (b[1] - a[1]) * (c[2] - a[2]) - (b[2] - a[2]) * (c[1] - a[1])

\* c lies on the closed segment [a, b].
OnSegment(a, b, c) ==
    /\ Orient(a, b, c) = 0
    /\ Min(a[1], b[1]) <= c[1] /\ c[1] <= Max(a[1], b[1])
    /\ Min(a[2], b[2]) <= c[2] /\ c[2] <= Max(a[2], b[2])

\* Edge k of the ring crosses the horizontal ray from pt to the right, and
\* the direction of the crossing: +1 upward, -1 downward, 0 no crossing.
EdgeCross(ring, k, pt) ==
    LET a == RingAt(ring, k)
        b == RingAt(ring, k + 1)
    IN  IF a[2] <= pt[2] /\ pt[2] < b[2] /\ Orient(a, b, pt) > 0 THEN 1
        ELSE IF b[2] <= pt[2] /\ pt[2] < a[2] /\ Orient(a, b, pt) < 0 THEN -1
        ELSE 0

\* Winding number of the ring around pt (pt not on the ring).
RECURSIVE WindingFrom(_, _, _)
WindingFrom(ring, k, pt) ==
    IF k > Len(ring) THEN 0
    ELSE EdgeCross(ring, k, pt) + WindingFrom(ring, k + 1, pt)

Winding(ring, pt) == WindingFrom(ring, 1, pt)

\* pt lies on the boundary of the ring (a vertex or an edge).
OnRing(ring, pt) ==
    \E k \in 1..Len(ring) : OnSegment(RingAt(ring, k), RingAt(ring, k + 1), pt)

\* Number of ring edges crossed by the ray from pt, modulo 2 (even-odd rule).
RECURSIVE CrossingsFrom(_, _, _)
CrossingsFrom(ring, k, pt) ==
    IF k > Len(ring) THEN 0
    ELSE (IF EdgeCross(ring, k, pt) # 0 THEN 1 ELSE 0)
         + CrossingsFrom(ring, k + 1, pt)

\* skimage point_in_polygon: non-zero (inside, on a vertex or on an edge), so
\* that skimage.draw.polygon includes the pixels on the contour.
point_in_polygon(ring, pt) ==
    OnRing(ring, pt) \/ CrossingsFrom(ring, 1, pt) % 2 = 1

\* The ring with every coordinate doubled (cell centres become integral).
Doubled(ring) == [k \in 1..Len(ring) |-> <<2 * ring[k][1], 2 * ring[k][2]>>]

Centre2(cell) == <<2 * cell[1] + 1, 2 * cell[2] + 1>>

RingXs(ring) == {ring[k][1] : k \in 1..Len(ring)}
RingYs(ring) == {ring[k][2] : k \in 1..Len(ring)}

\* Cells of the bounding box of a ring.
BoxCells(ring) ==
    IF SetMin(RingXs(ring)) = SetMax(RingXs(ring))
       \/ SetMin(RingYs(ring)) = SetMax(RingYs(ring))
    THEN {}
    ELSE (SetMin(RingXs(ring))..(SetMax(RingXs(ring)) - 1))
         \X (SetMin(RingYs(ring))..(SetMax(RingYs(ring)) - 1))

\* Cells enclosed by the ring under the even-odd rule (the area shapely
\* attributes to a Polygon built from the ring).
RingCells(ring) ==
    {c \in BoxCells(ring) : CrossingsFrom(Doubled(ring), 1, Centre2(c)) % 2 = 1}

(***************************************************************************)
(* shapely geometries                                                      *)
(***************************************************************************)
\* Two closed segments [a, b] and [c, d] have a point in common.
SegmentsMeet(a, b, c, d) ==
    \/ /\ Orient(a, b, c) * Orient(a, b, d) < 0
       /\ Orient(c, d, a) * Orient(c, d, b) < 0
    \/ OnSegment(a, b, c) \/ OnSegment(a, b, d)
    \/ OnSegment(c, d, a) \/ OnSegment(c, d, b)

\* Polygon.is_valid of a Polygon built from a vertex list: the ring encloses
\* area, consecutive edges do not fold back and other edges do not meet.
is_valid_ring(ring) ==
    /\ SignedArea2(ring) # 0
    /\ \A k \in 1..Len(ring) :
          /\ ~OnSegment(RingAt(ring, k), RingAt(ring, k + 1), RingAt(ring, k + 2))
          /\ ~OnSegment(RingAt(ring, k + 1), RingAt(ring, k + 2), RingAt(ring, k))
    /\ \A k \in 1..Len(ring) : \A l \in (k + 2)..Len(ring) :
          (l - k # Len(ring) - 1) =>
              ~SegmentsMeet(RingAt(ring, k), RingAt(ring, k + 1),
                            RingAt(ring, l), RingAt(ring, l + 1))

\* shapely.geometry.Polygon(coords): exterior ring only.
Polygon(coords) ==
    [kind |-> "Polygon", ring |-> coords, cells |-> RingCells(coords),
     valid |-> is_valid_ring(coords)]

\* The value None.
None == [kind |-> "None", ring |-> <<>>, cells |-> {}, valid |-> FALSE]

\* A geometry produced by a shapely set operation.
Geom(cells, valid) ==
    [kind |-> "Geom", ring |-> <<>>, cells |-> cells, valid |-> valid]

Sign(n) == IF n > 0 THEN 1 ELSE IF n < 0 THEN -1 ELSE 0

\* is_valid of the geometry buffer(0) returns for g.  GEOS decides it; a
\* function run may draw the kinds of geometry GEOS leaves invalid, in every
\* other run the buffered geometry is valid.
buffer_valid(g) == inp.kind = "repair" => g.kind \in inp.repairable

\* geometry.buffer(0): the area wound in the ring's own orientation; a lobe
\* of a self-crossing ring that is wound the other way is dropped.
buffer0(g) ==
    IF g.kind = "Polygon"
    THEN Geom({c \in BoxCells(g.ring) :
                  LET w == Winding(Doubled(g.ring), Centre2(c))
                  IN  w # 0 /\ Sign(w) = Sign(SignedArea2(g.ring))}, buffer_valid(g))
    ELSE Geom(g.cells, buffer_valid(g))

\* Polygon.union and geometry.difference.
union(g, h) == Geom(g.cells \cup h.cells, g.valid /\ h.valid)
difference(g, h) == Geom(g.cells \ h.cells, g.valid /\ h.valid)

\* geometry.bounds as <<xmin, ymin, xmax, ymax>>; <<>> for an empty geometry.
bounds(g) ==
    IF g.kind = "Polygon"
    THEN <<SetMin(RingXs(g.ring)), SetMin(RingYs(g.ring)),
           SetMax(RingXs(g.ring)), SetMax(RingYs(g.ring))>>
    ELSE IF g.cells = {} THEN <<>>
    ELSE <<SetMin({c[1] : c \in g.cells}), SetMin({c[2] : c \in g.cells}),
           SetMax({c[1] : c \in g.cells}) + 1, SetMax({c[2] : c \in g.cells}) + 1>>

\* geometry.area (rectilinear geometries: the number of unit cells).
area(g) == Cardinality(g.cells)

Adjacent(c, d) ==
    \/ c[1] = d[1] /\ (c[2] = d[2] + 1 \/ c[2] = d[2] - 1)
    \/ c[2] = d[2] /\ (c[1] = d[1] + 1 \/ c[1] = d[1] - 1)

\* Cells of A connected to S through shared edges.
RECURSIVE Reach(_, _)
Reach(S, A) ==
    LET N == {c \in A \ S : \E d \in S : Adjacent(c, d)}
    IN  IF N = {} THEN S ELSE Reach(S \cup N, A)

\* The connected parts of a geometry (geometry.geoms, or the polygon itself).
RECURSIVE Parts(_)
Parts(cells) ==
    IF cells = {} THEN {}
    ELSE LET seed == CHOOSE c \in cells : TRUE
             comp == Reach({seed}, cells)
         IN  {comp} \cup Parts(cells \ comp)

\* Cells enclosed by the exterior ring of a part: the part and its holes.
Enclosed(part) ==
    LET xs  == {c[1] : c \in part}
        ys  == {c[2] : c \in part}
        pad == ((SetMin(xs) - 1)..(SetMax(xs) + 1)) \X ((SetMin(ys) - 1)..(SetMax(ys) + 1))
        out == Reach({<<SetMin(xs) - 1, SetMin(ys) - 1>>}, pad \ part)
    IN  pad \ out

\* Cells enclosed by the interior rings of a part.
Interiors(part) == Enclosed(part) \ part

(***************************************************************************)
(* parse_xml, create_polygons, fix_polygon, create_selection               *)
(***************************************************************************)
\* An XML document is a sequence of Annotation elements, each a sequence of
\* Region elements [Selected, NegativeROA, Vertices]; a vertex is <<X, Y>> in
\* half pixels (the XML stores decimal coordinates).

\* Rows appended to the Regions table for annotation a_no (0-based).
RegionRows(xml, a_no) ==
    [r \in 1..Len(xml[a_no + 1]) |->
        [Annotation |-> a_no,
         Selected |-> xml[a_no + 1][r].Selected,
         NegativeROA |-> xml[a_no + 1][r].NegativeROA]]

\* Rows appended to the Points table for region r_no of annotation a_no.
VertexRows(xml, a_no, r_no) ==
    LET vs == xml[a_no + 1][r_no + 1].Vertices
    IN  [v \in 1..Len(vs) |->
            [Annotation |-> a_no, Region |-> r_no, X |-> vs[v][1], Y |-> vs[v][2]]]

RECURSIVE PointsOfRegions(_, _, _)
PointsOfRegions(xml, a_no, r_no) ==
    IF r_no >= Len(xml[a_no + 1]) THEN <<>>
    ELSE VertexRows(xml, a_no, r_no) \o PointsOfRegions(xml, a_no, r_no + 1)

RECURSIVE PointsFrom(_, _)
PointsFrom(xml, a_no) ==
    IF a_no >= Len(xml) THEN <<>>
    ELSE PointsOfRegions(xml, a_no, 0) \o PointsFrom(xml, a_no + 1)

RECURSIVE RegionsFrom(_, _)
RegionsFrom(xml, a_no) ==
    IF a_no >= Len(xml) THEN <<>>
    ELSE RegionRows(xml, a_no) \o RegionsFrom(xml, a_no + 1)

\* parse_xml: the Points and Regions tables and the Annotations index.
parse_xml(xml) ==
    [points |-> PointsFrom(xml, 0),
     regions |-> RegionsFrom(xml, 0),
     annotations |-> [a \in 1..Len(xml) |-> a - 1]]

\* The keys of table.groupby("Annotation") / groupby("Region"), sorted.
GroupKeys(points) == {<<points[k].Annotation, points[k].Region>> : k \in 1..Len(points)}

KeyLess(k1, k2) == k1[1] < k2[1] \/ (k1[1] = k2[1] /\ k1[2] < k2[2])

RECURSIVE SortedKeys(_)
SortedKeys(keys) ==
    IF keys = {} THEN <<>>
    ELSE LET first == CHOOSE k \in keys : \A o \in keys \ {k} : KeyLess(k, o)
         IN  <<first>> \o SortedKeys(keys \ {first})

\* The rows of one group, in table order (df_r).
GroupRows(points, key) ==
    SelectSeq(points, LAMBDA row : row.Annotation = key[1] /\ row.Region = key[2])

\* np.asarray(.., dtype=float).astype(int): truncation towards zero.
astype_int(half) == half \div 2

\* The loop of create_polygons with the vertex test off by one (< 2).
RECURSIVE PolygonRowsLax(_, _, _)
PolygonRowsLax(points, keys, counter) ==
    IF counter >= Len(keys) THEN <<>>
    ELSE LET df_r == GroupRows(points, keys[counter + 1])
             rest == PolygonRowsLax(points, keys, counter + 1)
         IN  IF Len(df_r) < 2 THEN rest
             ELSE <<[Polygon_ID |-> counter,
                     PolygonObject |->
                        Polygon([k \in 1..Len(df_r) |->
                                  <<astype_int(df_r[k].X), astype_int(df_r[k].Y)>>])]>>
                  \o rest

\* The loop body of create_polygons for group number counter (0-based).
RECURSIVE PolygonRows(_, _, _)
PolygonRows(points, keys, counter) ==
    IF counter >= Len(keys) THEN <<>>
    ELSE LET df_r == GroupRows(points, keys[counter + 1])
             rest == PolygonRows(points, keys, counter + 1)
         IN  IF Len(df_r) < 3 THEN rest
             ELSE <<[Polygon_ID |-> counter,
                     PolygonObject |->
                        Polygon([k \in 1..Len(df_r) |->
                                  <<astype_int(df_r[k].X), astype_int(df_r[k].Y)>>])]>>
                  \o rest

create_polygons(points) == PolygonRows(points, SortedKeys(GroupKeys(points)), 0)

\* fix_polygon buffering every polygon, without the validity check.
FixOneAlways(p) == buffer0(p)

\* fix_polygon giving up (None) when the buffered polygon is still invalid.
FixOneStrict(p) ==
    IF ~p.valid THEN (IF buffer0(p).valid THEN buffer0(p) ELSE None) ELSE p

\* fix_polygon applied to one polygon.
FixOne(p) == IF ~p.valid THEN buffer0(p) ELSE p

\* The message fix_polygon logs for one polygon ("" when it logs none).
FixMessage(p) ==
    IF ~p.valid
    THEN (IF ~buffer0(p).valid THEN "critical" ELSE "info")
    ELSE ""

\* fix_polygon(*polygons): the fixed polygon for a single input, else a list.
fix_polygon(polygons) ==
    IF Len(polygons) = 1 THEN FixOne(polygons[1])
    ELSE [k \in 1..Len(polygons) |-> FixOne(polygons[k])]

\* The reduction with Polygon.difference in the place of Polygon.union.
RECURSIVE reduce_difference(_, _, _)
reduce_difference(acc, positive, k) ==
    IF k > Len(positive) THEN acc
    ELSE reduce_difference(difference(acc, positive[k]), positive, k + 1)

\* functools.reduce(Polygon.union, positive) for a list of length >= 2.
RECURSIVE reduce_union(_, _, _)
reduce_union(acc, positive, k) ==
    IF k > Len(positive) THEN acc
    ELSE reduce_union(union(acc, positive[k]), positive, k + 1)

\* The loop subtracting the fixed negative polygons from the selection.
RECURSIVE SubtractFrom(_, _, _)
SubtractFrom(selection, negative, k) ==
    IF k > Len(negative) THEN selection
    ELSE SubtractFrom(difference(selection, FixOne(negative[k])), negative, k + 1)

NoLayer == -1

\* The partition with the regions that are not Selected left out.
SortedSelected(polygons, regions, layer, nroa) ==
    LET kept == SelectSeq(polygons, LAMBDA row :
                    /\ (layer # NoLayer => regions[row.Polygon_ID + 1].Annotation = layer)
                    /\ regions[row.Polygon_ID + 1].Selected = 1
                    /\ regions[row.Polygon_ID + 1].NegativeROA = nroa)
    IN  [k \in 1..Len(kept) |-> kept[k].PolygonObject]

\* The polygons create_selection keeps for the layer, by NegativeROA flag.
Sorted(polygons, regions, layer, nroa) ==
    LET kept == SelectSeq(polygons, LAMBDA row :
                    /\ (layer # NoLayer => regions[row.Polygon_ID + 1].Annotation = layer)
                    /\ regions[row.Polygon_ID + 1].NegativeROA = nroa)
    IN  [k \in 1..Len(kept) |-> kept[k].PolygonObject]

\* create_selection using the union as it is, without fix_polygon(union).
create_selection_unchecked(polygons, regions, layer) ==
    LET positive == Sorted(polygons, regions, layer, 0)
        negative == Sorted(polygons, regions, layer, 1)
    IN  IF positive # <<>>
        THEN LET fixed == fix_polygon(positive)
                 selection == IF Len(positive) # 1
                              THEN reduce_union(fixed[1], fixed, 2)
                              ELSE fixed
             IN  SubtractFrom(selection, negative, 1)
        ELSE None

create_selection(polygons, regions, layer) ==
    LET positive == Sorted(polygons, regions, layer, 0)
        negative == Sorted(polygons, regions, layer, 1)
    IN  IF positive # <<>>
        THEN LET fixed == fix_polygon(positive)
                 selection == IF Len(positive) # 1
                              THEN FixOne(reduce_union(fixed[1], fixed, 2))
                              ELSE fixed
             IN  SubtractFrom(selection, negative, 1)
        ELSE None

\* The messages fix_polygon(*polygons) logs, in order.
fix_log(polygons) ==
    SelectSeq([k \in 1..Len(polygons) |-> FixMessage(polygons[k])],
              LAMBDA message : message # "")

\* The messages create_selection logs through its calls of fix_polygon.
selection_log(polygons, regions, layer) ==
    LET positive == Sorted(polygons, regions, layer, 0)
        negative == Sorted(polygons, regions, layer, 1)
    IN  IF positive # <<>>
        THEN LET fixed == fix_polygon(positive)
             IN  fix_log(positive)
                 \o (IF Len(positive) # 1
                     THEN fix_log(<<reduce_union(fixed[1], fixed, 2)>>)
                     ELSE <<>>)
                 \o fix_log(negative)
        ELSE <<>>

(***************************************************************************)
(* create_mask                                                             *)
(***************************************************************************)
\* A shape argument that was not given (None).
NoShape == <<>>

\* Lines 450-457 with the override by target_shape / original_shape left out.
EffectiveScaleKept(selection, original_shape, target_shape, scale_x, scale_y) ==
    IF target_shape # NoShape /\ original_shape = NoShape
    THEN LET b == bounds(selection)
             shape == <<b[4] - b[2] + 1, b[3] - b[1] + 1>>
         IN  <<<<target_shape[1], shape[1]>>, <<target_shape[2], shape[2]>>>>
    ELSE <<scale_y, scale_x>>

\* Lines 450-457: the scale factors <<scale_y, scale_x>> actually used.
EffectiveScale(selection, original_shape, target_shape, scale_x, scale_y) ==
    IF target_shape # NoShape
    THEN IF original_shape # NoShape
         THEN <<<<target_shape[1], original_shape[1]>>,
                <<target_shape[2], original_shape[2]>>>>
         ELSE LET b == bounds(selection)
                  shape == <<b[4] - b[2] + 1, b[3] - b[1] + 1>>
              IN  <<<<target_shape[1], shape[1]>>, <<target_shape[2], shape[2]>>>>
    ELSE <<scale_y, scale_x>>

\* Lines 459-472: the field of view [xmin, ymin, xmax, ymax] in mask pixels.
FOV(selection, original_shape, sx, sy) ==
    IF original_shape = NoShape
    THEN LET b == bounds(selection)
         IN  [xmin |-> PyRound(b[1] * sx[1], sx[2]),
              ymin |-> PyRound(b[2] * sy[1], sy[2]),
              xmax |-> PyRound(b[3] * sx[1], sx[2]),
              ymax |-> PyRound(b[4] * sy[1], sy[2])]
    ELSE [xmin |-> 0,
          ymin |-> 0,
          xmax |-> PyRound(original_shape[2] * sx[1], sx[2]) - 1,
          ymax |-> PyRound(original_shape[1] * sy[1], sy[2]) - 1]

FOVShape(fov) == <<fov.ymax - fov.ymin + 1, fov.xmax - fov.xmin + 1>>

\* The shape of the canvas create_mask allocates.
MaskShape(selection, original_shape, target_shape, scale_x, scale_y) ==
    LET s == EffectiveScale(selection, original_shape, target_shape, scale_x, scale_y)
    IN  FOVShape(FOV(selection, original_shape, s[2], s[1]))

\* draw_polygon(ey - ymin, ex - xmin, shape) hits pixel <<r, c>>, for the
\* ring of a Polygon scaled by sx, sy: the pixel is inside or on the ring.
RingHits(ring, fov, sx, sy, r, c) ==
    point_in_polygon(
        [k \in 1..Len(ring) |-> <<ring[k][1] * sx[1], ring[k][2] * sy[1]>>],
        <<(c + fov.xmin) * sx[2], (r + fov.ymin) * sy[2]>>)

\* The hit test with the right and bottom edges of the contour left out.
CellsHitHalfOpen(cells, fov, sx, sy, r, c) ==
    \E cell \in cells :
        /\ cell[1] * sx[1] <= (c + fov.xmin) * sx[2]
        /\ (c + fov.xmin) * sx[2] < (cell[1] + 1) * sx[1]
        /\ cell[2] * sy[1] <= (r + fov.ymin) * sy[2]
        /\ (r + fov.ymin) * sy[2] < (cell[2] + 1) * sy[1]

\* The same for the ring(s) that bound a set of cells.
CellsHit(cells, fov, sx, sy, r, c) ==
    \E cell \in cells :
        /\ cell[1] * sx[1] <= (c + fov.xmin) * sx[2]
        /\ (c + fov.xmin) * sx[2] <= (cell[1] + 1) * sx[1]
        /\ cell[2] * sy[1] <= (r + fov.ymin) * sy[2]
        /\ (r + fov.ymin) * sy[2] <= (cell[2] + 1) * sy[1]

\* The cells enclosed by the exterior ring of some part (geom.exterior for
\* geom in selection.geoms), and by the interior rings (geom.interiors).
ExteriorCells(selection) == UNION {Enclosed(part) : part \in Parts(selection.cells)}
InteriorCells(selection) == UNION {Interiors(part) : part \in Parts(selection.cells)}

\* Lines 478-491: the pixels set to fill_value by the exterior contours.
ExteriorHits(selection, exterior, fov, sx, sy, r, c) ==
    IF selection.kind = "Polygon"
    THEN RingHits(selection.ring, fov, sx, sy, r, c)
    ELSE CellsHit(exterior, fov, sx, sy, r, c)

\* Lines 493-508: the pixels set back to 0 by the interior contours.
InteriorHits(selection, interior, fov, sx, sy, r, c) ==
    /\ selection.kind # "Polygon"
    /\ CellsHit(interior, fov, sx, sy, r, c)

\* create_mask clearing the interior contours before it fills the exterior
\* ones.
create_mask_clear_first(selection, original_shape, target_shape, scale_x, scale_y, invert, fill_value) ==
    LET s == EffectiveScale(selection, original_shape, target_shape, scale_x, scale_y)
        sx == s[2]
        sy == s[1]
        fov == FOV(selection, original_shape, sx, sy)
        shape == FOVShape(fov)
        exterior == ExteriorCells(selection)
        drawn == [px \in (0..(shape[1] - 1)) \X (0..(shape[2] - 1)) |->
                    IF ExteriorHits(selection, exterior, fov, sx, sy, px[1], px[2])
                    THEN fill_value
                    ELSE 0]
    IN  [shape |-> shape,
         canvas |-> IF invert
                    THEN [px \in DOMAIN drawn |-> fill_value - drawn[px]]
                    ELSE drawn]

\* create_mask for a non-empty selection: the shape and the canvas.
create_mask(selection, original_shape, target_shape, scale_x, scale_y, invert, fill_value) ==
    LET s == EffectiveScale(selection, original_shape, target_shape, scale_x, scale_y)
        sx == s[2]
        sy == s[1]
        fov == FOV(selection, original_shape, sx, sy)
        shape == FOVShape(fov)
        exterior == ExteriorCells(selection)
        interior == InteriorCells(selection)
        drawn == [px \in (0..(shape[1] - 1)) \X (0..(shape[2] - 1)) |->
                    IF InteriorHits(selection, interior, fov, sx, sy, px[1], px[2]) THEN 0
                    ELSE IF ExteriorHits(selection, exterior, fov, sx, sy, px[1], px[2])
                         THEN fill_value
                         ELSE 0]
    IN  [shape |-> shape,
         canvas |-> IF invert
                    THEN [px \in DOMAIN drawn |-> fill_value - drawn[px]]
                    ELSE drawn]

(***************************************************************************)
(* Inputs of the batch driver                                              *)
(***************************************************************************)
\* Largest number of input files in one batch.
MaxFiles == 2

\* A Region element.
Reg(selected, nroa, vertices) ==
    [Selected |-> selected, NegativeROA |-> nroa, Vertices |-> vertices]

\* The corners of the square [a, b] x [a, b], in half pixels, plus a fraction
\* that the float-to-int cast drops.
SquareVerts(a, b) ==
    <<<<2 * a, 2 * a>>, <<2 * b + 1, 2 * a>>, <<2 * b, 2 * b + 1>>, <<2 * a + 1, 2 * b>>>>

\* The corners of the rectangle [x0, x1] x [y0, y1], in half pixels.
RectVerts(x0, y0, x1, y1) ==
    <<<<2 * x0, 2 * y0>>, <<2 * x1, 2 * y0>>, <<2 * x1, 2 * y1>>, <<2 * x0, 2 * y1>>>>

\* A file that ET.parse rejects.
Malformed == "malformed"

\* The XML documents the batch is drawn from.
Documents ==
    << Malformed,
       \* one layer: an additive square with a subtractive square inside it
       << <<Reg(1, 0, SquareVerts(0, 4)), Reg(0, 1, SquareVerts(1, 3))>> >>,
       \* layer 0 holds only a NegativeROA polygon, layer 1 two additive ones
       << <<Reg(0, 1, SquareVerts(0, 2))>>,
          <<Reg(0, 0, RectVerts(0, 0, 2, 1)), Reg(1, 0, RectVerts(1, 0, 3, 2))>> >>,
       \* layer 0 has no region; layer 1 a two-vertex region and a square
       << <<>>,
          <<Reg(0, 0, <<<<0, 0>>, <<4, 4>>>>), Reg(0, 0, SquareVerts(1, 3))>> >>,
       \* a region without vertices precedes a NegativeROA square
       << <<Reg(0, 0, <<>>), Reg(0, 1, SquareVerts(0, 2))>> >>,
       \* the subtractive square covers the additive one: empty selection
       << <<Reg(0, 0, SquareVerts(1, 2)), Reg(0, 1, SquareVerts(0, 3))>> >> >>

\* The option sets (the keyword arguments of process) the run is drawn from.
\* scale is the tuple p.scale of rationals; outdir TRUE means --out was given.
\* p.display is off in every set (the windows it opens change no state).
OptionSets ==
    { [csv |-> FALSE, bin |-> TRUE, mask |-> TRUE, outdir |-> FALSE,
       scale |-> <<<<1, 1>>>>, original_shape |-> NoShape,
       target_shape |-> NoShape, fill_value |-> 255],
      [csv |-> TRUE, bin |-> FALSE, mask |-> TRUE, outdir |-> TRUE,
       scale |-> <<<<1, 2>>, <<1, 2>>>>, original_shape |-> <<6, 6>>,
       target_shape |-> NoShape, fill_value |-> 255],
      [csv |-> FALSE, bin |-> TRUE, mask |-> FALSE, outdir |-> FALSE,
       scale |-> <<<<1, 1>>>>, original_shape |-> NoShape,
       target_shape |-> NoShape, fill_value |-> 255],
      [csv |-> FALSE, bin |-> FALSE, mask |-> TRUE, outdir |-> FALSE,
       scale |-> <<<<1, 1>>, <<1, 1>>, <<1, 1>>>>, original_shape |-> NoShape,
       target_shape |-> NoShape, fill_value |-> 1] }

\* Exceptions whose args tuple is empty (MemoryError() raised by the
\* allocator); every other exception of the model carries a message.
HasArgs(e) == e # "MemoryError"

\* The attribute p.outbase has not been assigned.
Unset == 0


(***************************************************************************)
(* State                                                                   *)
(***************************************************************************)
VARIABLES
    xmlfiles,    \* the batch: indices into Documents, in processing order
    opt,         \* p: the options, with the attribute outbase that process adds
    fidx,        \* position of the for loop over xmlfiles (1-based)
    pc,          \* position of process() inside the loop body
    err,         \* the error counter
    exc,         \* the exception in flight ("" when none)
    tables,      \* points, regions, annotations of the current file
    polygons,    \* the table create_polygons returned
    li,          \* position of the loop over annotation layers (1-based)
    selection,   \* the selection of the current layer
    mask,        \* the mask of the current layer
    written,     \* the output files written so far
    attempted,   \* history: files whose try block was entered
    failed,      \* history: files whose try block raised
    summary,     \* the concluding log line (NoSummary before it is written)
    result,      \* how process() ended: "running", "returned" or "raised"
    stage        \* the position of a function run

vars == <<xmlfiles, opt, fidx, pc, err, exc, tables, polygons, li, selection,
          mask, written, attempted, failed, summary, result, inp, stage>>

\* The concluding log lines, and the value of summary before either is written.
Success == [text |-> "All tasks were successfully completed.", errors |-> 0]
Errors(n) == [text |-> "Tasks were completed with {} error(s).", errors |-> n]
NoSummary == [text |-> "", errors |-> 0]

NoTables == [points |-> <<>>, regions |-> <<>>, annotations |-> <<>>]
NoMask == [shape |-> <<>>, canvas |-> <<>>]
NoInput == [kind |-> "none"]

\* All batches of 1..MaxFiles input files.
Batches == UNION {[1..n -> 1..Len(Documents)] : n \in 1..MaxFiles}

Init ==
    /\ xmlfiles \in Batches
    /\ \E o \in OptionSets : opt = o @@ [outbase |-> Unset]
    /\ fidx = 1
    /\ pc = "for"
    /\ err = 0
    /\ exc = ""
    /\ tables = NoTables
    /\ polygons = <<>>
    /\ li = 1
    /\ selection = None
    /\ mask = NoMask
    /\ written = {}
    /\ attempted = {}
    /\ failed = {}
    /\ summary = NoSummary
    /\ result = "running"
    /\ inp = NoInput
    /\ stage = "process"

(***************************************************************************)
(* process(): the loop over the input files                                *)
(***************************************************************************)
Doc == Documents[xmlfiles[fidx]]

\* An exception e leaves the try block at the current statement.
Raise(e) ==
    /\ pc' = "except"
    /\ exc' = e
    /\ failed' = failed \cup {fidx}

\* An output file of input file number file; layer is NoLayer for the tables.
Output(file, layer, kind) == [file |-> file, layer |-> layer, kind |-> kind]

\* Line 114: the for statement takes the next file, or the loop ends.
ForFile ==
    /\ pc = "for"
    /\ IF fidx <= Len(xmlfiles)
       THEN /\ pc' = "parse"
            /\ attempted' = attempted \cup {fidx}
       ELSE /\ pc' = "conclude"
            /\ UNCHANGED attempted
    /\ UNCHANGED <<xmlfiles, opt, fidx, err, exc, tables, polygons, li,
                   selection, mask, written, failed, summary, result, inp, stage>>

\* Lines 117-120: parse_xml(f).
ParseFile ==
    /\ pc = "parse"
    /\ IF Doc = Malformed
       THEN /\ Raise("ParseError")
            /\ UNCHANGED tables
       ELSE /\ tables' = parse_xml(Doc)
            /\ pc' = "outbase"
            /\ UNCHANGED <<exc, failed>>
    /\ UNCHANGED <<xmlfiles, opt, fidx, err, polygons, li, selection, mask,
                   written, attempted, summary, result, inp, stage>>

\* Lines 123-129: the output base name; os.makedirs may fail.
SetOutbase ==
    /\ pc = "outbase"
    /\ \/ /\ opt.outdir
          /\ Raise("OSError")
          /\ UNCHANGED opt
       \/ /\ opt' = [opt EXCEPT !.outbase = fidx]
          /\ pc' = "csv"
          /\ UNCHANGED <<exc, failed>>
    /\ UNCHANGED <<xmlfiles, fidx, err, tables, polygons, li, selection, mask,
                   written, attempted, summary, result, inp, stage>>

\* Lines 132-135: the three tables are saved when p.csv is set.
SaveTables ==
    /\ pc = "csv"
    /\ IF opt.csv
       THEN \/ /\ Raise("OSError")
               /\ UNCHANGED written
            \/ /\ written' = written \cup {Output(fidx, NoLayer, "csv")}
               /\ pc' = "polygons"
               /\ UNCHANGED <<exc, failed>>
       ELSE /\ pc' = "polygons"
            /\ UNCHANGED <<written, exc, failed>>
    /\ UNCHANGED <<xmlfiles, opt, fidx, err, tables, polygons, li, selection,
                   mask, attempted, summary, result, inp, stage>>

\* Line 138: polygons = create_polygons(points).
RetrievePolygons ==
    /\ pc = "polygons"
    /\ polygons' = create_polygons(tables.points)
    /\ li' = 1
    /\ pc' = "layer"
    /\ UNCHANGED <<xmlfiles, opt, fidx, err, exc, tables, selection, mask,
                   written, attempted, failed, summary, result, inp, stage>>

\* Lines 141-147: the for statement over the layers; the layer directory is
\* created (os.makedirs may fail).  After the last layer the file is done.
ForLayer ==
    /\ pc = "layer"
    /\ IF li <= Len(tables.annotations)
       THEN \/ /\ Raise("OSError")
               /\ UNCHANGED fidx
            \/ /\ pc' = "selection"
               /\ UNCHANGED <<fidx, exc, failed>>
       ELSE /\ fidx' = fidx + 1
            /\ pc' = "for"
            /\ UNCHANGED <<exc, failed>>
    /\ UNCHANGED <<xmlfiles, opt, err, tables, polygons, li, selection, mask,
                   written, attempted, summary, result, inp, stage>>

\* Lines 150-154: the set algebra; a layer without selection is skipped.
SelectLayer ==
    /\ pc = "selection"
    /\ selection' = create_selection(polygons, tables.regions,
                                     tables.annotations[li])
    /\ IF selection' = None
       THEN /\ li' = li + 1
            /\ pc' = "layer"
       ELSE /\ pc' = "bin"
            /\ UNCHANGED li
    /\ UNCHANGED <<xmlfiles, opt, fidx, err, exc, tables, polygons, mask,
                   written, attempted, failed, summary, result, inp, stage>>

\* Lines 161-163: the selection object is dumped when p.bin is set.
DumpSelection ==
    /\ pc = "bin"
    /\ IF opt.bin
       THEN \/ /\ Raise("OSError")
               /\ UNCHANGED written
            \/ /\ written' = written \cup {Output(fidx, tables.annotations[li], "obj")}
               /\ pc' = "mask"
               /\ UNCHANGED <<exc, failed>>
       ELSE /\ pc' = "mask"
            /\ UNCHANGED <<written, exc, failed>>
    /\ UNCHANGED <<xmlfiles, opt, fidx, err, tables, polygons, li, selection,
                   mask, attempted, summary, result, inp, stage>>

\* Lines 166-177: the mask is generated when p.mask is set.  The scale tuple
\* must have one or two entries; np.zeros may raise MemoryError(); an empty
\* selection has no bounds to unpack and, with a full field of view, either
\* has no exterior to draw or no part at all.
GenerateMask ==
    /\ pc = "mask"
    /\ IF ~opt.mask
       THEN /\ li' = li + 1
            /\ pc' = "layer"
            /\ UNCHANGED <<mask, exc, failed>>
       ELSE IF Len(opt.scale) \notin {1, 2}
       THEN /\ Raise("ValueError")
            /\ UNCHANGED <<mask, li>>
       ELSE LET scale_x == opt.scale[1]
                scale_y == IF Len(opt.scale) = 1 THEN opt.scale[1] ELSE opt.scale[2]
            IN  \/ /\ Raise("MemoryError")
                   /\ UNCHANGED <<mask, li>>
                \/ /\ selection.cells = {}
                   /\ Raise("ValueError")
                   /\ UNCHANGED <<mask, li>>
                \/ /\ selection.cells # {} \/ opt.original_shape # NoShape
                   /\ mask' = create_mask(
                                 IF selection.cells = {} THEN Geom({}, TRUE) ELSE selection,
                                 opt.original_shape, opt.target_shape,
                                 scale_x, scale_y, FALSE, opt.fill_value)
                   /\ pc' = "save"
                   /\ UNCHANGED <<li, exc, failed>>
    /\ UNCHANGED <<xmlfiles, opt, fidx, err, tables, polygons, selection,
                   written, attempted, summary, result, inp, stage>>

\* Lines 183-184: the mask is saved as a TIFF file.
SaveMask ==
    /\ pc = "save"
    /\ \/ /\ Raise("OSError")
          /\ UNCHANGED <<written, li>>
       \/ /\ written' = written \cup {Output(fidx, tables.annotations[li], "tif")}
          /\ li' = li + 1
          /\ pc' = "layer"
          /\ UNCHANGED <<exc, failed>>
    /\ UNCHANGED <<xmlfiles, opt, fidx, err, tables, polygons, selection, mask,
                   attempted, summary, result, inp, stage>>

\* The handler without its err += 1.
ExceptNoCount ==
    /\ pc = "except"
    /\ IF HasArgs(exc)
       THEN /\ fidx' = fidx + 1
            /\ pc' = "for"
            /\ exc' = ""
            /\ UNCHANGED <<err, result>>
       ELSE /\ exc' = "IndexError"
            /\ pc' = "done"
            /\ result' = "raised"
            /\ UNCHANGED <<err, fidx>>
    /\ UNCHANGED <<xmlfiles, opt, tables, polygons, li, selection, mask,
                   written, attempted, failed, summary, inp, stage>>

\* Lines 185-188: the handler formats exc.args[0], counts the error and
\* continues; exc.args[0] raises IndexError when args is empty, and that
\* exception leaves process().
Except ==
    /\ pc = "except"
    /\ IF HasArgs(exc)
       THEN /\ err' = err + 1
            /\ fidx' = fidx + 1
            /\ pc' = "for"
            /\ exc' = ""
            /\ UNCHANGED result
       ELSE /\ exc' = "IndexError"
            /\ pc' = "done"
            /\ result' = "raised"
            /\ UNCHANGED <<err, fidx>>
    /\ UNCHANGED <<xmlfiles, opt, tables, polygons, li, selection, mask,
                   written, attempted, failed, summary, inp, stage>>

\* Lines 191-194: the summary.
Conclude ==
    /\ pc = "conclude"
    /\ summary' = IF err = 0 THEN Success ELSE Errors(err)
    /\ pc' = "savelog"
    /\ UNCHANGED <<xmlfiles, opt, fidx, err, exc, tables, polygons, li,
                   selection, mask, written, attempted, failed, result, inp, stage>>

\* Lines 197-200: the log is copied next to the last outputs; reading
\* p.outbase raises AttributeError when no file got as far as setting it,
\* and a PermissionError of the copy is swallowed.
SaveLog ==
    /\ pc = "savelog"
    /\ pc' = "done"
    /\ IF opt.outbase = Unset
       THEN /\ exc' = "AttributeError"
            /\ result' = "raised"
            /\ UNCHANGED written
       ELSE /\ result' = "returned"
            /\ UNCHANGED exc
            /\ \/ written' = written \cup {Output(opt.outbase, NoLayer, "log")}
               \/ UNCHANGED written
    /\ UNCHANGED <<xmlfiles, opt, fidx, err, tables, polygons, li, selection,
                   mask, attempted, failed, summary, inp, stage>>

Next ==
    \/ ForFile
    \/ ParseFile
    \/ SetOutbase
    \/ SaveTables
    \/ RetrievePolygons
    \/ ForLayer
    \/ SelectLayer
    \/ DumpSelection
    \/ GenerateMask
    \/ SaveMask
    \/ Except
    \/ Conclude
    \/ SaveLog

Spec == Init /\ [][Next]_vars

(***************************************************************************)
(* Properties of process()                                                 *)
(***************************************************************************)
\* The layer of the document has a region of its own that is additive
\* (NegativeROA = 0) and has the three vertices a polygon needs.
HasAdditive(doc, layer) ==
    \E r \in 1..Len(doc[layer + 1]) :
        /\ doc[layer + 1][r].NegativeROA = 0
        /\ Len(doc[layer + 1][r].Vertices) >= 3

\* C1: every file of the batch is attempted, whatever exceptions the files
\* raise: when process() has ended, the try block was entered for each file.
C1_EveryFileAttempted ==
    pc = "done" => attempted = 1..Len(xmlfiles)

\* C2: when the batch loop has ended, err is the number of files whose
\* processing raised, and the summary reports success exactly when no file
\* failed.
C2_ErrCountsFailedFiles ==
    (pc \in {"conclude", "savelog"} \/ (pc = "done" /\ summary # NoSummary))
        => /\ err = Cardinality(failed)
           /\ summary # NoSummary => (summary = Success <=> failed = {})

\* C2 witness: the loop ended after one file failed and another succeeded.
C2_Witness ==
    /\ pc = "savelog"
    /\ summary = Errors(1)
    /\ Cardinality(failed) = 1
    /\ Cardinality(attempted) = 2

\* C3: process() always completes normally: once it has ended, it has
\* returned and has not raised.
C3_AlwaysReturns ==
    pc = "done" => result = "returned"

\* C4: a layer without additive polygon is skipped: create_selection returns
\* None, nothing is written, the error counter stays, the next layer is taken.
C4_EmptyLayerSkipped ==
    [][(pc = "selection" /\ ~HasAdditive(Doc, tables.annotations[li]))
        => /\ selection' = None
           /\ pc' = "layer"
           /\ li' = li + 1
           /\ err' = err
           /\ failed' = failed
           /\ written' = written]_vars

\* The positions of process() inside the loop over the layers (141-184).
LayerLoop == {"layer", "selection", "bin", "mask", "save"}

\* C18: a failure in a layer fails the file, not the layer alone.  The step
\* that raises inside the layer loop writes nothing and marks the file as
\* failed; the handler then counts the file once and goes on to the next
\* file, so that no later layer of the file is processed; no output of a
\* failed file is written afterwards, and no output is ever removed.
C18_FailureIsolationPerFile ==
    [][/\ (pc \in LayerLoop /\ pc' = "except")
            => (written' = written /\ failed' = failed \cup {fidx})
       /\ pc = "except"
            => /\ err' = err + 1
               /\ fidx' = fidx + 1
               /\ pc' = "for"
               /\ written' = written
       /\ \A o \in written' \ written : o.kind = "log" \/ o.file \notin failed
       /\ written \subseteq written']_vars

(***************************************************************************)
(* Function runs: parse_xml, create_polygons, create_selection and         *)
(* create_mask applied to inputs drawn from bounded sets                   *)
(***************************************************************************)
\* Bounds of the generated documents and arguments.
MaxRegions == 3
MaxVertices == 4
MaxPolygons == 3
MaxDim == 3

\* The driver does not run during a function run.
Idle ==
    /\ xmlfiles = <<>>
    /\ opt = [outbase |-> Unset]
    /\ fidx = 1
    /\ pc = "idle"
    /\ err = 0
    /\ exc = ""
    /\ li = 1
    /\ written = {}
    /\ attempted = {}
    /\ failed = {}
    /\ summary = NoSummary
    /\ result = "running"

\* Vertex number k of region r_no of annotation a_no in a generated
\* document, in half pixels.
VertexAt(a_no, r_no, k) == <<(7 * k + 3 * a_no + r_no) % 10, (3 * k + 5 * r_no + a_no) % 8>>

\* The document of two annotations whose regions have counts[1], counts[2],
\* ... vertices; the first split regions belong to annotation 0.
CountDoc(counts, split) ==
    << [r \in 1..split |->
           Reg(0, 0, [k \in 1..counts[r] |-> VertexAt(0, r - 1, k)])],
       [r \in 1..(Len(counts) - split) |->
           Reg(0, 0, [k \in 1..counts[split + r] |-> VertexAt(1, r - 1, k)])] >>

\* Documents with up to MaxRegions regions of 0..MaxVertices vertices each.
CountDocs ==
    UNION {{CountDoc(counts, split) : split \in 0..Len(counts)} :
              counts \in UNION {[1..n -> 0..MaxVertices] : n \in 0..MaxRegions}}

\* The outlines the regions of a generated layer are drawn from: two
\* overlapping rectangles, a square inside the first, a detached square.
Outlines ==
    << RectVerts(0, 0, 3, 2), RectVerts(2, 1, 5, 4),
       RectVerts(1, 1, 2, 2), RectVerts(6, 0, 7, 1) >>

\* The one-layer document with the given regions <<outline, NegativeROA>>.
LayerDoc(regs) ==
    << [r \in 1..Len(regs) |-> Reg(0, regs[r][2], Outlines[regs[r][1]])] >>

\* One layer of 1..MaxPolygons regions, each additive or subtractive.
LayerDocs ==
    {LayerDoc(regs) :
        regs \in UNION {[1..n -> (1..Len(Outlines)) \X {0, 1}] : n \in 1..MaxPolygons}}

\* The additive square (0,0)-(10,10) with the subtractive square (2,2)-(8,8).
SquareWithHoleDoc ==
    << <<Reg(0, 0, RectVerts(0, 0, 10, 10)), Reg(0, 1, RectVerts(2, 2, 8, 8))>> >>

\* Four additive regions: a U-shaped outline and a bar that closes it (their
\* union is the frame (0,0)-(6,6) around the hole (1,1)-(5,5)), a square
\* inside the hole and a square apart from the frame.
FrameIslandDoc ==
    << << Reg(0, 0, << <<0, 0>>, <<12, 0>>, <<12, 12>>, <<10, 12>>,
                       <<10, 2>>, <<2, 2>>, <<2, 12>>, <<0, 12>> >>),
          Reg(0, 0, RectVerts(0, 5, 6, 6)),
          Reg(0, 0, RectVerts(2, 2, 4, 4)),
          Reg(0, 0, RectVerts(8, 0, 9, 1)) >> >>

\* The arguments of a function run.
Args(doc, original_shape, target_shape, scale_x, scale_y, invert, fill_value) ==
    [kind |-> "args", doc |-> doc, layer |-> 0,
     original_shape |-> original_shape, target_shape |-> target_shape,
     scale_x |-> scale_x, scale_y |-> scale_y,
     invert |-> invert, fill_value |-> fill_value]

One == <<1, 1>>

\* parse_xml(inp.doc).
ParseStep ==
    /\ stage = "xml"
    /\ tables' = parse_xml(inp.doc)
    /\ stage' = "tables"
    /\ UNCHANGED <<xmlfiles, opt, fidx, pc, err, exc, polygons, li, selection,
                   mask, written, attempted, failed, summary, result, inp>>

\* create_polygons(points).
BuildStep ==
    /\ stage = "tables"
    /\ polygons' = create_polygons(tables.points)
    /\ stage' = "polygons"
    /\ UNCHANGED <<xmlfiles, opt, fidx, pc, err, exc, tables, li, selection,
                   mask, written, attempted, failed, summary, result, inp>>

\* create_selection(polygons, regions, layer=inp.layer).
SelectStep ==
    /\ stage = "polygons"
    /\ selection' = create_selection(polygons, tables.regions, inp.layer)
    /\ stage' = "selection"
    /\ UNCHANGED <<xmlfiles, opt, fidx, pc, err, exc, tables, polygons, li,
                   mask, written, attempted, failed, summary, result, inp>>

\* create_mask(selection, ...) for a selection that has bounds.
MaskStep ==
    /\ stage = "selection"
    /\ selection # None
    /\ bounds(selection) # <<>>
    /\ mask' = create_mask(selection, inp.original_shape, inp.target_shape,
                           inp.scale_x, inp.scale_y, inp.invert, inp.fill_value)
    /\ stage' = "mask"
    /\ UNCHANGED <<xmlfiles, opt, fidx, pc, err, exc, tables, polygons, li,
                   selection, written, attempted, failed, summary, result, inp>>

\* Function run 1: parse_xml and create_polygons on every generated document.
InitPolygons ==
    /\ Idle
    /\ \E doc \in CountDocs : inp = Args(doc, NoShape, NoShape, One, One, FALSE, 255)
    /\ stage = "xml"
    /\ tables = NoTables
    /\ polygons = <<>>
    /\ selection = None
    /\ mask = NoMask

NextPolygons == ParseStep \/ BuildStep

SpecPolygons == InitPolygons /\ [][NextPolygons]_vars

\* Function run 2: the whole chain on one generated layer, mask at scale 1.
InitSelection ==
    /\ Idle
    /\ \E doc \in LayerDocs \cup {SquareWithHoleDoc, FrameIslandDoc} :
       \E fill \in {<<255, FALSE>>, <<1, TRUE>>} :
          inp = Args(doc, NoShape, NoShape, One, One, fill[2], fill[1])
    /\ stage = "xml"
    /\ tables = NoTables
    /\ polygons = <<>>
    /\ selection = None
    /\ mask = NoMask

NextSelection == ParseStep \/ BuildStep \/ SelectStep \/ MaskStep

SpecSelection == InitSelection /\ [][NextSelection]_vars

\* The selection create_selection returns for layer 0 of a document.
SelectionOf(doc) ==
    create_selection(create_polygons(parse_xml(doc).points), parse_xml(doc).regions, 0)

\* The selections create_mask is applied to: a square, a rectangle off the
\* origin, a square with a hole, two detached squares, and two polygons
\* without area (three collinear points, one repeated point).
MaskSelections ==
    { SelectionOf(<< <<Reg(0, 0, RectVerts(0, 0, 4, 4))>> >>),
      SelectionOf(<< <<Reg(0, 0, RectVerts(1, 2, 4, 3))>> >>),
      SelectionOf(<< <<Reg(0, 0, RectVerts(0, 0, 4, 4)), Reg(0, 1, RectVerts(1, 1, 3, 3))>> >>),
      SelectionOf(<< <<Reg(0, 0, RectVerts(0, 0, 1, 1)), Reg(0, 0, RectVerts(3, 3, 4, 4))>> >>),
      Polygon(<<<<1, 1>>, <<3, 1>>, <<5, 1>>>>),
      Polygon(<<<<2, 2>>, <<2, 2>>, <<2, 2>>>>) }

\* The scale factors scale_x, scale_y are drawn from: 0.15 (the default of
\* DEFAULT_OPTIONS), 1 and 2.
Scales == {<<3, 20>>, <<1, 1>>, <<2, 1>>}

\* The shapes (vertical, horizontal) with 1..MaxDim pixels per axis.
Shapes == (1..MaxDim) \X (1..MaxDim)

\* Function run 3: create_mask on a selection, with every combination of
\* original_shape, target_shape and scale factors.
InitMask ==
    /\ Idle
    /\ \E original_shape \in Shapes \cup {NoShape} :
       \E target_shape \in Shapes \cup {NoShape} :
       \E scale_x \in Scales : \E scale_y \in Scales :
          inp = Args(<<>>, original_shape, target_shape, scale_x, scale_y, FALSE, 255)
    /\ stage = "selection"
    /\ tables = NoTables
    /\ polygons = <<>>
    /\ selection \in MaskSelections
    /\ mask = NoMask

NextMask == MaskStep

SpecMask == InitMask /\ [][NextMask]_vars

(***************************************************************************)
(* create_selection applied to two-layer documents with invalid polygons   *)
(***************************************************************************)
\* A ring that crosses itself at pixel (4, 4): a lobe of 9 pixels and a lobe
\* of 1 pixel, wound opposite ways (vertices in half pixels).
CrossedVerts ==
    <<<<2, 2>>, <<8, 2>>, <<8, 10>>, <<10, 10>>, <<10, 8>>, <<2, 8>>>>

\* The outlines of a repair run: a rectangle, the crossed ring that overlaps
\* it in part, and a region without vertices.
RepairOutlines == << RectVerts(0, 0, 3, 2), CrossedVerts, <<>> >>

\* The document whose regions are <<outline, NegativeROA>>; the first split
\* regions belong to annotation 0, the others to annotation 1.
TwoLayerDoc(regs, split) ==
    << [r \in 1..split |-> Reg(0, regs[r][2], RepairOutlines[regs[r][1]])],
       [r \in 1..(Len(regs) - split) |->
           Reg(0, regs[split + r][2], RepairOutlines[regs[split + r][1]])] >>

\* Two layers with up to MaxPolygons regions in all; only the first region
\* of a document may be the one without vertices.
TwoLayerDocs ==
    UNION {{TwoLayerDoc(regs, split) : split \in 0..Len(regs)} :
              regs \in {f \in UNION {[1..n -> (1..Len(RepairOutlines)) \X {0, 1}] :
                                        n \in 0..MaxPolygons} :
                           \A r \in 2..Len(f) : RepairOutlines[f[r][1]] # <<>>}}

\* What GEOS makes of buffer(0) in a run: every result valid, the result for
\* a Polygon built from a ring invalid, every result invalid.
Repairables == {{"Polygon", "Geom"}, {"Geom"}, {}}

\* The arguments of a repair run.
RepairArgs(doc, repairable) ==
    [kind |-> "repair", doc |-> doc, layer |-> 0, repairable |-> repairable]

\* Function run 4: parse_xml, create_polygons and create_selection for
\* layer 0 of a two-layer document, for each outcome of buffer(0).
InitRepair ==
    /\ Idle
    /\ \E doc \in TwoLayerDocs : \E repairable \in Repairables :
          inp = RepairArgs(doc, repairable)
    /\ stage = "xml"
    /\ tables = NoTables
    /\ polygons = <<>>
    /\ selection = None
    /\ mask = NoMask

NextRepair == ParseStep \/ BuildStep \/ SelectStep

SpecRepair == InitRepair /\ [][NextRepair]_vars

(***************************************************************************)
(* Properties of create_polygons                                           *)
(***************************************************************************)
\* The regions <<a, r>> (1-based) of a document.
RegionsOf(doc) == UNION {{<<a, r>> : r \in 1..Len(doc[a])} : a \in 1..Len(doc)}

VertexCount(doc, g) == Len(doc[g[1]][g[2]].Vertices)

\* The number of vertex groups that precede the region in the Points table.
GroupsBefore(doc, g) ==
    Cardinality({h \in RegionsOf(doc) : VertexCount(doc, h) >= 1 /\ KeyLess(h, g)})

\* The region's vertices on the pixel grid.
PixelRing(doc, g) ==
    [k \in 1..VertexCount(doc, g) |->
        <<doc[g[1]][g[2]].Vertices[k][1] \div 2, doc[g[1]][g[2]].Vertices[k][2] \div 2>>]

\* The table holds the polygon of the region's vertex group.
HasPolygonOf(doc, g) ==
    \E k \in 1..Len(polygons) :
        /\ polygons[k].Polygon_ID = GroupsBefore(doc, g)
        /\ polygons[k].PolygonObject.ring = PixelRing(doc, g)

\* C5: create_polygons returns a polygon for a vertex group if and only if
\* the group has at least 3 vertices; smaller groups are left out and the
\* polygons of all other groups are still produced.
C5_PolygonIffThreeVertices ==
    stage = "polygons" =>
        /\ \A g \in RegionsOf(inp.doc) :
              HasPolygonOf(inp.doc, g) <=> VertexCount(inp.doc, g) >= 3
        /\ Len(polygons) =
              Cardinality({g \in RegionsOf(inp.doc) : VertexCount(inp.doc, g) >= 3})

\* C5 witness: regions of 0 and 2 vertices precede a region of 4 vertices,
\* whose polygon is the only one built.
C5_Witness ==
    /\ stage = "polygons"
    /\ inp.doc = CountDoc(<<0, 2, 4>>, 1)
    /\ Len(polygons) = 1
    /\ polygons[1].Polygon_ID = 1

(***************************************************************************)
(* Properties of create_mask                                               *)
(***************************************************************************)
\* C6: with target_shape and original_shape both given, the mask has exactly
\* the shape target_shape, and the scale factors passed have no effect on
\* the mask.
C6_TargetShapeWithOriginal ==
    (stage = "mask" /\ inp.target_shape # NoShape /\ inp.original_shape # NoShape)
        => /\ mask.shape = inp.target_shape
           /\ \A scale_x \in Scales : \A scale_y \in Scales :
                 create_mask(selection, inp.original_shape, inp.target_shape,
                             scale_x, scale_y, inp.invert, inp.fill_value) = mask

\* C6 witness: a mask of shape target_shape = (3, 2) was made for an image
\* of shape (2, 3) although the scale 0.15 / 2 was passed.
C6_Witness ==
    /\ stage = "mask"
    /\ inp.original_shape = <<2, 3>>
    /\ inp.target_shape = <<3, 2>>
    /\ inp.scale_x = <<3, 20>>
    /\ inp.scale_y = <<2, 1>>
    /\ mask.shape = <<3, 2>>

\* C7: with target_shape given and original_shape absent, the mask has the
\* shape target_shape.
C7_TargetShapeAlone ==
    (stage = "mask" /\ inp.target_shape # NoShape /\ inp.original_shape = NoShape)
        => mask.shape = inp.target_shape

\* C8: both dimensions of every mask are at least 1.
C8_MaskDimensionsPositive ==
    stage = "mask" => (mask.shape[1] >= 1 /\ mask.shape[2] >= 1)

(***************************************************************************)
(* Properties of create_selection followed by create_mask                  *)
(***************************************************************************)
\* C9: the additive square (0,0)-(10,10) with the subtractive square
\* (2,2)-(8,8), masked at scale 1 without original_shape, gives a mask of
\* shape (11, 11) that is fill_value everywhere except for a 7 x 7 block of
\* zeros whose top-left corner is at (2, 2).
C9_SquareWithHoleMask ==
    (stage = "mask" /\ inp.doc = SquareWithHoleDoc /\ ~inp.invert)
        => /\ mask.shape = <<11, 11>>
           /\ DOMAIN mask.canvas = (0..10) \X (0..10)
           /\ \A px \in DOMAIN mask.canvas :
                 mask.canvas[px] = IF px[1] \in 2..8 /\ px[2] \in 2..8
                                   THEN 0
                                   ELSE inp.fill_value

\* C9 witness: the mask of the two squares was made; a corner pixel is
\* filled and the centre pixel is cleared.
C9_Witness ==
    /\ stage = "mask"
    /\ inp.doc = SquareWithHoleDoc
    /\ ~inp.invert
    /\ mask.canvas[<<10, 10>>] = 255
    /\ mask.canvas[<<5, 5>>] = 0

\* The polygon table with its rows in the order perm.
Reordered(table, perm) == [k \in 1..Len(table) |-> table[perm[k]]]

\* C10: the selection covers the same region, and so has the same area, for
\* every order in which the polygons of the layer are encountered.
C10_UnionOrderIndependent ==
    stage = "selection" =>
        \A perm \in Permutations(1..Len(polygons)) :
            LET other == create_selection(Reordered(polygons, perm),
                                          tables.regions, inp.layer)
            IN  /\ other.kind = "None" <=> selection.kind = "None"
                /\ other.cells = selection.cells
                /\ area(other) = area(selection)

\* C10 witness: three additive rectangles, two of them overlapping, were
\* united to a selection of area 6 + 9 - 1 + 1.
C10_Witness ==
    /\ stage = "selection"
    /\ inp.doc = LayerDoc(<<<<1, 0>>, <<2, 0>>, <<4, 0>>>>)
    /\ area(selection) = 15

(***************************************************************************)
(* Properties of fix_polygon and create_selection                          *)
(***************************************************************************)
\* Two geometries cover the same region (geometry.equals).
Equivalent(g, h) == g.kind # "None" /\ h.kind # "None" /\ g.cells = h.cells

\* The PolygonObject column of the polygon table.
PolygonObjects == [k \in 1..Len(polygons) |-> polygons[k].PolygonObject]

\* C11: fix_polygon returns a valid polygon unchanged, and fixing the result
\* of fix_polygon again gives an equivalent geometry, for one polygon and for
\* a list of polygons.
C11_FixPolygonIdempotent ==
    (stage = "polygons" /\ polygons # <<>>) =>
        LET once == fix_polygon(PolygonObjects)
        IN  IF Len(polygons) = 1
            THEN /\ PolygonObjects[1].valid => once = PolygonObjects[1]
                 /\ Equivalent(fix_polygon(<<once>>), once)
            ELSE /\ Len(once) = Len(polygons)
                 /\ \A k \in 1..Len(polygons) :
                       /\ PolygonObjects[k].valid => once[k] = PolygonObjects[k]
                       /\ Equivalent(fix_polygon(once)[k], once[k])

\* C11 witness: a rectangle and the crossed ring were fixed; the rectangle
\* is returned as it is, the ring becomes its lobe of 9 pixels, which a
\* second fix_polygon leaves alone.
C11_Witness ==
    /\ stage = "polygons"
    /\ inp.kind = "repair"
    /\ inp.repairable = {"Polygon", "Geom"}
    /\ Len(polygons) = 2
    /\ PolygonObjects[1].valid
    /\ ~PolygonObjects[2].valid
    /\ fix_polygon(PolygonObjects)[1] = PolygonObjects[1]
    /\ area(fix_polygon(PolygonObjects)[2]) = 9
    /\ fix_polygon(fix_polygon(PolygonObjects)) = fix_polygon(PolygonObjects)

\* buffer(0) does not get the invalid polygon valid.
Unrepaired(p) == ~p.valid /\ ~buffer0(p).valid

\* The region fix_polygon is to return for a polygon: the polygon's own, or
\* the buffered one when the polygon is invalid.
RepairedCells(p) == IF p.valid THEN p.cells ELSE buffer0(p).cells

\* The union of the repaired regions of a list of polygons.
CellsOfAll(list) == UNION {RepairedCells(list[k]) : k \in 1..Len(list)}

RegionIndex(doc, g) == Cardinality({h \in RegionsOf(doc) : KeyLess(h, g)})

\* The region whose row has the positional index idx.
RegionAt(doc, idx) == CHOOSE g \in RegionsOf(doc) : RegionIndex(doc, g) = idx

\* C13: the identifier of every polygon is the positional index, in the
\* Regions table, of the region the polygon was built from, so that
\* regions.iloc[poly_id] is the row of that region; regions with fewer than
\* 3 vertices, or with none, do not disturb this.
C13_PolygonIdIsRegionIndex ==
    stage = "polygons" =>
        \A k \in 1..Len(polygons) :
            LET poly_id == polygons[k].Polygon_ID
            IN  /\ poly_id < Len(tables.regions)
                /\ polygons[k].PolygonObject.ring =
                       PixelRing(inp.doc, RegionAt(inp.doc, poly_id))
                /\ tables.regions[poly_id + 1].Annotation =
                       RegionAt(inp.doc, poly_id)[1] - 1

(***************************************************************************)
(* The repair of the union                                                 *)
(***************************************************************************)
\* The additive and the subtractive polygons create_selection keeps.
Positive == Sorted(polygons, tables.regions, inp.layer, 0)
Negative == Sorted(polygons, tables.regions, inp.layer, 1)

\* Some additive polygon is still invalid after its own repair.
AdditiveLeftInvalid == \E k \in 1..Len(Positive) : ~FixOne(Positive[k]).valid

\* Every subtractive polygon is valid after its own repair.
SubtractiveAllValid == \A k \in 1..Len(Negative) : FixOne(Negative[k]).valid

\* The number of invalid polygons among those the layer keeps.
InvalidKept ==
    Cardinality({k \in 1..Len(Positive) : ~Positive[k].valid})
    + Cardinality({k \in 1..Len(Negative) : ~Negative[k].valid})

Covers(cells, pt) ==
    \E cell \in cells : /\ cell[1] <= pt[1] /\ pt[1] <= cell[1] + 1
                        /\ cell[2] <= pt[2] /\ pt[2] <= cell[2] + 1

\* The point of the image plane that pixel <<r, c>> of the mask stands for
\* (scale 1, field of view at the selection's bounds).
PointOf(px) == <<px[2] + bounds(selection)[1], px[1] + bounds(selection)[2]>>

\* The point is enclosed by the exterior ring of some part of the selection.
InExterior(pt) ==
    IF selection.kind = "Polygon"
    THEN point_in_polygon(selection.ring, pt)
    ELSE \E part \in Parts(selection.cells) : Covers(Enclosed(part), pt)

\* The point is enclosed by a hole ring of some part of the selection.
InHole(pt) ==
    /\ selection.kind # "Polygon"
    /\ \E part \in Parts(selection.cells) : Covers(Enclosed(part) \ part, pt)

\* The canvas before the inversion.
BeforeInvert(px) ==
    IF inp.invert THEN inp.fill_value - mask.canvas[px] ELSE mask.canvas[px]

\* C15: the holes of all parts are cleared after the exteriors of all parts
\* are filled: before inversion, a pixel enclosed by the hole ring of some
\* part is 0, and a pixel enclosed by some exterior ring and by no hole ring
\* is fill_value.
C15_HolesClearedAfterFills ==
    stage = "mask" =>
        \A px \in DOMAIN mask.canvas :
            /\ InHole(PointOf(px)) => BeforeInvert(px) = 0
            /\ (InExterior(PointOf(px)) /\ ~InHole(PointOf(px)))
                   => BeforeInvert(px) = inp.fill_value

\* C15 witness: the mask of the frame, the square inside its hole and the
\* square apart: the frame and the square apart are filled, and the hole of
\* the frame is cleared together with the square that was filled inside it.
C15_Witness ==
    /\ stage = "mask"
    /\ inp.doc = FrameIslandDoc
    /\ ~inp.invert
    /\ Cardinality(Parts(selection.cells)) = 3
    /\ mask.shape = <<7, 10>>
    /\ mask.canvas[<<0, 0>>] = 255
    /\ mask.canvas[<<1, 8>>] = 255
    /\ mask.canvas[<<1, 1>>] = 0
    /\ mask.canvas[<<3, 3>>] = 0

(***************************************************************************)
(* The Selected flag                                                       *)
(***************************************************************************)
\* The document with the Selected attribute of its regions set to flags[g].
WithSelected(doc, flags) ==
    [a \in 1..Len(doc) |->
        [r \in 1..Len(doc[a]) |-> [doc[a][r] EXCEPT !.Selected = flags[<<a, r>>]]]]

\* C16: the Selected flags do not matter: a run on a document that differs
\* only in the Selected values has the same Points table (hence the same
\* polygons), keeps the same additive and the same subtractive polygons for
\* the layer and returns the same selection (or None in both runs).
C16_SelectedIsNotAFilter ==
    stage = "selection" =>
        \A flags \in [RegionsOf(inp.doc) -> {0, 1}] :
            LET other == parse_xml(WithSelected(inp.doc, flags))
            IN  /\ other.points = tables.points
                /\ Sorted(polygons, other.regions, inp.layer, 0) = Positive
                /\ Sorted(polygons, other.regions, inp.layer, 1) = Negative
                /\ create_selection(polygons, other.regions, inp.layer) = selection

\* C16 witness: no region of the document is Selected, layer 0 has the
\* crossed ring as additive and the rectangle as subtractive polygon, and the
\* run with every region Selected returns the same selection of 7 pixels.
C16_Witness ==
    /\ stage = "selection"
    /\ inp.doc = TwoLayerDoc(<<<<2, 0>>, <<1, 1>>, <<1, 0>>>>, 2)
    /\ \A k \in 1..Len(tables.regions) : tables.regions[k].Selected = 0
    /\ Len(Positive) = 1
    /\ Len(Negative) = 1
    /\ area(selection) = 7
    /\ LET other == parse_xml(WithSelected(inp.doc, [g \in RegionsOf(inp.doc) |-> 1]))
       IN  /\ \A k \in 1..Len(other.regions) : other.regions[k].Selected = 1
           /\ create_selection(create_polygons(other.points), other.regions, 0) = selection

(***************************************************************************)
(* The selection and the polygons of its layer                             *)
(***************************************************************************)
\* The regions of the layer with at least 3 vertices and the given
\* NegativeROA flag: the regions whose polygons belong to the layer.
LayerRegions(doc, layer, nroa) ==
    {g \in RegionsOf(doc) : /\ g[1] - 1 = layer
                            /\ VertexCount(doc, g) >= 3
                            /\ doc[g[1]][g[2]].NegativeROA = nroa}

\* The region covered by the repaired polygons of a set of regions.
CellsOfRegions(doc, regs) ==
    UNION {RepairedCells(Polygon(PixelRing(doc, g))) : g \in regs}

\* The document with the regions of every other layer removed.
OnlyLayer(doc, layer) ==
    [a \in 1..Len(doc) |-> IF a - 1 = layer THEN doc[a] ELSE <<>>]

\* C17: a selection returned for a layer lies within the union of the
\* layer's repaired additive polygons and has no point inside a repaired
\* subtractive polygon of the layer, and the polygons of the other layers do
\* not change the result.
C17_SelectionWithinLayer ==
    stage = "selection" =>
        /\ selection.kind # "None" =>
              /\ selection.cells \subseteq
                     CellsOfRegions(inp.doc, LayerRegions(inp.doc, inp.layer, 0))
              /\ selection.cells
                     \cap CellsOfRegions(inp.doc, LayerRegions(inp.doc, inp.layer, 1)) = {}
        /\ LET alone == parse_xml(OnlyLayer(inp.doc, inp.layer))
           IN  create_selection(create_polygons(alone.points), alone.regions, inp.layer)
                   = selection

====
